---- MODULE Spec2Model ----
(***************************************************************************)
(* poke-card-keeper-hub: the booster-pack page (BoosterGame.tsx) and the   *)
(* card-details page (CardDetails.tsx) as state machines.                  *)
(*                                                                         *)
(* A React state cell is a variable.  An async handler is a task whose pc  *)
(* names the backend call it awaits; one action is one response of the     *)
(* backend together with the continuation the handler runs on it (up to    *)
(* its next await).  A backend call answers with a value, with an error    *)
(* value, or by rejecting (a throw at the await).                          *)
(*                                                                         *)
(* The calls of addToGameCollection and of fetchGameCollectionCount in     *)
(* flight are kept as sets: two calls with the same arguments that wait at *)
(* the same await are one element.  The backend is the game_collections    *)
(* table, which starts empty and from which no row is ever removed.        *)
(*                                                                         *)
(* One instance of the booster page is followed from the moment its mount  *)
(* effect has run until after it unmounted; what a call in flight at the   *)
(* unmount still does is an orphan action.  The CardSet component (a pure  *)
(* render of its props) has a specification of its own.                    *)
(***************************************************************************)
EXTENDS Integers, Sequences, FiniteSets

\* ------------------------------------------------------------------ bounds
NumCards == 2          \* rows of the cards table, ids 1..NumCards in id order
MaxCount == 2          \* cap of gameCollectionCount in the model
MaxAdds == 1           \* addToGameCollection calls in flight at once
MaxCountReads == 1     \* fetchGameCollectionCount calls in flight at once
MaxTotal == 201        \* CardSet: the largest total_cards of a set

\* -------------------------------------------------------- program constants
PackLimit == 5         \* .limit(5) of the cards query
HooksBeforeReturn == 5 \* CardDetails: useParams, 3 useState, useNavigate
HooksFull == 6         \* CardDetails: and useState(cardDetails.owned)
Percent == 100         \* CardSet: (collectedCards / total_cards) * 100
FullProgress == 100    \* CardSet: collectionProgress === 100
HalfProgress == 50     \* CardSet: collectionProgress > 50

Users == {"u1"}        \* user ids the session provider and the AuthModal give
NoUser == ""           \* useState('') of username
Catalog == 1..NumCards

VARIABLES
  \* BoosterGame: React state
  isLoggedIn, showAuthModal, username, boosterCards, isOpened, isLoading,
  gameCollectionCount,
  \* BoosterGame: what the user was shown and what escaped every handler
  toast, unhandled,
  \* backend: the game_collections table, as the set of its (user_id, card_id)
  game_collections,
  \* BoosterGame: calls in flight
  checkUserPc, openTask, addTasks, countTasks,
  \* BoosterGame: whether the page is mounted, and the onAuthStateChange
  \* subscription its effect created
  mounted, subscription,
  \* history: the (user, card) of every addToGameCollection call that succeeded
  added,
  \* history: the last event and its input
  ev,
  \* CardDetails: route parameters, React state, hooks of the last render, output
  cdSetId, cdCardId, cdIsLoggedIn, cdShowAuthModal, cdUsername, cdIsOwned,
  cdHooks, cdOutput,
  \* CardSet: the props of the set, and the progress value and the indicator
  \* class of its render
  total_cards, collectedCards, collectionProgress, indicatorClassName

boosterVars == <<isLoggedIn, showAuthModal, username, boosterCards, isOpened,
                 isLoading, gameCollectionCount, toast, unhandled,
                 game_collections, checkUserPc, openTask, addTasks, countTasks>>
cdVars == <<cdSetId, cdCardId, cdIsLoggedIn, cdShowAuthModal, cdUsername,
            cdIsOwned, cdHooks, cdOutput>>
mountVars == <<mounted, subscription>>
csVars == <<total_cards, collectedCards, collectionProgress, indicatorClassName>>
vars == <<boosterVars, mountVars, added, ev, cdVars, csVars>>

\* ------------------------------------------------------------ pure helpers
Min(a, b) == IF a < b THEN a ELSE b

\* from('cards').select('*').order('id').limit(5): the first PackLimit ids
CardsQuery == [i \in 1..Min(NumCards, PackLimit) |-> i]

\* The card_id column of the user's rows of game_collections.
getUserGameCollection(db, userId) == {c \in Catalog : <<userId, c>> \in db}

\* rpc get_user_game_collection_safe: the same rows, as data that is not null.
get_user_game_collection_safe(db, userId) ==
  [null |-> FALSE, ids |-> {c \in Catalog : <<userId, c>> \in db}]

\* The number of the user's rows of game_collections.
getGameCollectionCount(db, userId) ==
  Cardinality({c \in Catalog : <<userId, c>> \in db})

\* The insert of one (user_id, card_id) row; the pair is unique in the table.
InsertRow(db, userId, cardId) == db \cup {<<userId, cardId>>}

\* A merge with the membership test inverted
MergePrimary_Negated(randomCards, gameCollection) ==
  [i \in 1..Len(randomCards) |->
     [id |-> randomCards[i], owned |-> randomCards[i] \notin gameCollection]]

\* randomCards.map(card => ({...card, owned: ownedCardIds.includes(card.id)}))
MergePrimary(randomCards, gameCollection) ==
  [i \in 1..Len(randomCards) |->
     [id |-> randomCards[i], owned |-> randomCards[i] \in gameCollection]]

\* A fallback merge that takes the rpc data for missing whatever it holds
MergeFallback_DropsData(randomCards, rpcData) ==
  [i \in 1..Len(randomCards) |-> [id |-> randomCards[i], owned |-> FALSE]]

\* ownedCardIds = rpcData ? rpcData.map(item => item.card_id) : [], then the map
MergeFallback(randomCards, rpcData) ==
  LET ownedCardIds == IF rpcData.null THEN {} ELSE rpcData.ids
  IN [i \in 1..Len(randomCards) |->
        [id |-> randomCards[i], owned |-> randomCards[i] \in ownedCardIds]]

\* A default that marks every card owned
MergeDefault_AllOwned(randomCards) ==
  [i \in 1..Len(randomCards) |-> [id |-> randomCards[i], owned |-> TRUE]]

\* randomCards.map(card => ({...card, owned: false}))
MergeDefault(randomCards) ==
  [i \in 1..Len(randomCards) |-> [id |-> randomCards[i], owned |-> FALSE]]

\* A patch that marks no card
PatchOwned_None(prevCards, cardId) == prevCards

\* prevCards.map(card => card.id === cardId ? {...card, owned: true} : card)
PatchOwned(prevCards, cardId) ==
  [i \in 1..Len(prevCards) |->
     IF prevCards[i].id = cardId
       THEN [prevCards[i] EXCEPT !.owned = TRUE]
       ELSE prevCards[i]]

\* setGameCollectionCount(prev => prev + 1)
BumpCount(prev) == prev + 1

\* The subscription supabase.auth.onAuthStateChange returns to the effect
Subscribed == "subscribed"

\* A cleanup that releases nothing
Unsubscribe_Leak(sub) == sub

\* The cleanup of the effect: authListener?.subscription?.unsubscribe()
Unsubscribe(sub) == "unsubscribed"

IdleOpen == [pc |-> "idle", user |-> NoUser, cards |-> <<>>, known |-> {}]

Ev(op, user, card) == [op |-> op, user |-> user, card |-> card, known |-> {}]
\* The event that ends a run of openBoosterPack, with what the run started from
EvOpen(op, task) ==
  [op |-> op, user |-> task.user, card |-> 0, known |-> task.known]

\* ---------------------------------------------------------------- Init
BoosterInit ==
  /\ isLoggedIn = FALSE /\ showAuthModal = FALSE /\ username = NoUser
  /\ boosterCards = <<>> /\ isOpened = FALSE /\ isLoading = FALSE
  /\ gameCollectionCount = 0
  /\ toast = "none" /\ unhandled = FALSE
  /\ game_collections = {}
  /\ checkUserPc = "getSession"
  /\ openTask = IdleOpen /\ addTasks = {} /\ countTasks = {}

\* CardDetails before its first render: no hook has run, nothing is on screen
CdInit ==
  /\ cdSetId = "undefined" /\ cdCardId = "undefined"
  /\ cdIsLoggedIn = FALSE /\ cdShowAuthModal = FALSE /\ cdUsername = NoUser
  /\ cdIsOwned = FALSE /\ cdHooks = 0 /\ cdOutput = "none"

\* The effect of the mount has run: checkUser() is sent (BoosterInit) and the
\* session observer is subscribed
MountInit == mounted = TRUE /\ subscription = Subscribed

\* No CardSet is rendered
CsInit ==
  /\ total_cards = 0 /\ collectedCards = 0
  /\ collectionProgress = 0 /\ indicatorClassName = "none"

Init ==
  /\ BoosterInit /\ MountInit /\ CdInit /\ CsInit
  /\ added = {} /\ ev = Ev("mount", NoUser, 0)

\* ------------------------------------------------- session and count read
CountTask(pc, userId) == [pc |-> pc, user |-> userId]

\* A session change that starts no count read
StartCountRead_None(tasks, userId) == tasks

\* fetchGameCollectionCount(userId), up to its first await
StartCountRead(tasks, userId) == tasks \cup {CountTask("count", userId)}

\* checkUser: getSession() answers with a session
checkUserSession(u) ==
  /\ mounted
  /\ checkUserPc = "getSession"
  /\ Cardinality(StartCountRead(countTasks, u)) <= MaxCountReads
  /\ checkUserPc' = "done"
  /\ isLoggedIn' = TRUE
  /\ username' = u
  /\ countTasks' = StartCountRead(countTasks, u)
  /\ ev' = Ev("checkUserSession", u, 0)
  /\ UNCHANGED <<showAuthModal, boosterCards, isOpened, isLoading,
                 gameCollectionCount, toast, unhandled, game_collections,
                 openTask, addTasks, added, mountVars,
                 cdVars, csVars>>

\* checkUser: getSession() answers with no session (an error value included)
checkUserNoSession ==
  /\ mounted
  /\ checkUserPc = "getSession"
  /\ checkUserPc' = "done"
  /\ ev' = Ev("checkUserNoSession", NoUser, 0)
  /\ UNCHANGED <<isLoggedIn, showAuthModal, username, boosterCards, isOpened,
                 isLoading, gameCollectionCount, toast, unhandled,
                 game_collections, openTask, addTasks, countTasks, added, mountVars,
                 cdVars, csVars>>

\* What is left of a rejection of checkUser(): the call is neither awaited nor
\* caught, and checkUser has no try.
CheckUserRejected == TRUE

\* checkUser: getSession() rejects
checkUserReject ==
  /\ mounted
  /\ checkUserPc = "getSession"
  /\ checkUserPc' = "done"
  /\ unhandled' = CheckUserRejected
  /\ ev' = Ev("checkUserReject", NoUser, 0)
  /\ UNCHANGED <<isLoggedIn, showAuthModal, username, boosterCards, isOpened,
                 isLoading, gameCollectionCount, toast, game_collections,
                 openTask, addTasks, countTasks, added, mountVars,
                 cdVars, csVars>>

\* The onAuthStateChange callback, with a session
onAuthStateChangeSession(u) ==
  /\ subscription = Subscribed
  /\ Cardinality(StartCountRead(countTasks, u)) <= MaxCountReads
  /\ isLoggedIn' = TRUE
  /\ username' = u
  /\ countTasks' = StartCountRead(countTasks, u)
  /\ ev' = Ev("onAuthStateChangeSession", u, 0)
  /\ UNCHANGED <<showAuthModal, boosterCards, isOpened, isLoading,
                 gameCollectionCount, toast, unhandled, game_collections,
                 checkUserPc, openTask, addTasks, added, mountVars,
                 cdVars, csVars>>

\* The onAuthStateChange callback, without a session
onAuthStateChangeNoSession ==
  /\ subscription = Subscribed
  /\ isLoggedIn' = FALSE
  /\ username' = NoUser
  /\ gameCollectionCount' = 0
  /\ ev' = Ev("onAuthStateChangeNoSession", NoUser, 0)
  /\ UNCHANGED <<showAuthModal, boosterCards, isOpened, isLoading, toast,
                 unhandled, game_collections, checkUserPc, openTask, addTasks,
                 countTasks, added, mountVars,
                 cdVars, csVars>>

countUnchanged == <<isLoggedIn, showAuthModal, username, boosterCards, isOpened,
                    isLoading, toast, unhandled, game_collections, checkUserPc,
                    openTask, addTasks, added, mountVars,
                    cdVars, csVars>>

\* fetchGameCollectionCount: getGameCollectionCount answers {count}
fetchCountOk(t) ==
  /\ mounted
  /\ t \in countTasks /\ t.pc = "count"
  /\ gameCollectionCount' = getGameCollectionCount(game_collections, t.user)
  /\ countTasks' = countTasks \ {t}
  /\ ev' = Ev("fetchCountOk", t.user, 0)
  /\ UNCHANGED countUnchanged

\* fetchGameCollectionCount: getGameCollectionCount answers {error}: logged, return
fetchCountError(t) ==
  /\ mounted
  /\ t \in countTasks /\ t.pc = "count"
  /\ countTasks' = countTasks \ {t}
  /\ ev' = Ev("fetchCountError", t.user, 0)
  /\ UNCHANGED <<gameCollectionCount, countUnchanged>>

\* fetchGameCollectionCount: getGameCollectionCount rejects: the catch calls
\* rpc get_game_collection_count_safe
fetchCountThrow(t) ==
  /\ mounted
  /\ t \in countTasks /\ t.pc = "count"
  /\ CountTask("rpc", t.user) \notin countTasks
  /\ countTasks' = (countTasks \ {t}) \cup {CountTask("rpc", t.user)}
  /\ ev' = Ev("fetchCountThrow", t.user, 0)
  /\ UNCHANGED <<gameCollectionCount, countUnchanged>>

\* fetchGameCollectionCount: the rpc answers a number
fetchCountRpcOk(t) ==
  /\ mounted
  /\ t \in countTasks /\ t.pc = "rpc"
  /\ gameCollectionCount' = getGameCollectionCount(game_collections, t.user)
  /\ countTasks' = countTasks \ {t}
  /\ ev' = Ev("fetchCountRpcOk", t.user, 0)
  /\ UNCHANGED countUnchanged

\* fetchGameCollectionCount: the rpc answers {error}, or null data, or rejects
\* (the inner catch): nothing is set
fetchCountRpcFail(t) ==
  /\ mounted
  /\ t \in countTasks /\ t.pc = "rpc"
  /\ countTasks' = countTasks \ {t}
  /\ ev' = Ev("fetchCountRpcFail", t.user, 0)
  /\ UNCHANGED <<gameCollectionCount, countUnchanged>>

\* ------------------------------------------------------ login, logout, modal
\* handleLogin(username), from the AuthModal that is open
handleLogin(u) ==
  /\ mounted
  /\ showAuthModal
  /\ Cardinality(StartCountRead(countTasks, u)) <= MaxCountReads
  /\ isLoggedIn' = TRUE
  /\ username' = u
  /\ showAuthModal' = FALSE
  /\ countTasks' = StartCountRead(countTasks, u)
  /\ ev' = Ev("handleLogin", u, 0)
  /\ UNCHANGED <<boosterCards, isOpened, isLoading, gameCollectionCount, toast,
                 unhandled, game_collections, checkUserPc, openTask, addTasks,
                 added, mountVars,
                 cdVars, csVars>>

handleLogout ==
  /\ mounted
  /\ isLoggedIn' = FALSE
  /\ username' = NoUser
  /\ gameCollectionCount' = 0
  /\ ev' = Ev("handleLogout", NoUser, 0)
  /\ UNCHANGED <<showAuthModal, boosterCards, isOpened, isLoading, toast,
                 unhandled, game_collections, checkUserPc, openTask, addTasks,
                 countTasks, added, mountVars,
                 cdVars, csVars>>

\* Layout onLogin: () => setShowAuthModal(true)
onLogin ==
  /\ mounted
  /\ showAuthModal' = TRUE
  /\ ev' = Ev("onLogin", NoUser, 0)
  /\ UNCHANGED <<isLoggedIn, username, boosterCards, isOpened, isLoading,
                 gameCollectionCount, toast, unhandled, game_collections,
                 checkUserPc, openTask, addTasks, countTasks, added, mountVars,
                 cdVars, csVars>>

\* AuthModal onClose: () => setShowAuthModal(false)
onClose ==
  /\ mounted
  /\ showAuthModal
  /\ showAuthModal' = FALSE
  /\ ev' = Ev("onClose", NoUser, 0)
  /\ UNCHANGED <<isLoggedIn, username, boosterCards, isOpened, isLoading,
                 gameCollectionCount, toast, unhandled, game_collections,
                 checkUserPc, openTask, addTasks, countTasks, added, mountVars,
                 cdVars, csVars>>

\* -------------------------------------------------------- openBoosterPack
openUnchanged == <<isLoggedIn, showAuthModal, username, gameCollectionCount,
                   unhandled, game_collections, checkUserPc, addTasks,
                   countTasks, added, mountVars,
                   cdVars, csVars>>

\* The "Open Booster Pack" button is rendered while !isOpened and is disabled
\* while isLoading.
OpenButtonEnabled == ~isOpened /\ ~isLoading

\* An openBoosterPack without the check of isLoggedIn
OpenGuardLoggedOut_Never == FALSE

\* if (!isLoggedIn) { setShowAuthModal(true); return; }
OpenGuardLoggedOut == ~isLoggedIn

\* openBoosterPack, logged out
openBoosterPackLoggedOut ==
  /\ mounted
  /\ OpenButtonEnabled
  /\ OpenGuardLoggedOut
  /\ showAuthModal' = TRUE
  /\ ev' = Ev("openBoosterPackLoggedOut", NoUser, 0)
  /\ UNCHANGED <<isLoggedIn, username, boosterCards, isOpened, isLoading,
                 gameCollectionCount, toast, unhandled, game_collections,
                 checkUserPc, openTask, addTasks, countTasks, added, mountVars,
                 cdVars, csVars>>

\* openBoosterPack, logged in: setIsLoading(true) and the cards query is sent.
\* known: the cards the user's calls of addToGameCollection have added by now.
openBoosterPackStart ==
  /\ mounted
  /\ OpenButtonEnabled
  /\ ~OpenGuardLoggedOut
  /\ openTask.pc = "idle"
  /\ isLoading' = TRUE
  /\ openTask' = [pc |-> "cards", user |-> username, cards |-> <<>>,
                  known |-> {c \in Catalog : <<username, c>> \in added}]
  /\ ev' = Ev("openBoosterPackStart", username, 0)
  /\ UNCHANGED <<boosterCards, isOpened, toast, openUnchanged>>

\* catch: toast.error('Failed to open booster pack'); finally: setIsLoading(false)
OpenCatch(op) ==
  /\ toast' = "Failed to open booster pack"
  /\ isLoading' = FALSE
  /\ openTask' = IdleOpen
  /\ ev' = EvOpen(op, openTask)
  /\ UNCHANGED <<boosterCards, isOpened, openUnchanged>>

\* The cards query answers the cards; getUserGameCollection(username) is sent
openCardsOk ==
  /\ mounted
  /\ openTask.pc = "cards"
  /\ openTask' = [openTask EXCEPT !.pc = "collection", !.cards = CardsQuery]
  /\ ev' = Ev("openCardsOk", openTask.user, 0)
  /\ UNCHANGED <<boosterCards, isOpened, isLoading, toast, openUnchanged>>

\* The cards query answers {error} or no data (both thrown on), or rejects
openCardsFail ==
  /\ mounted
  /\ openTask.pc = "cards"
  /\ OpenCatch("openCardsFail")

\* setBoosterCards(cardsWithStatus); setIsOpened(true); finally setIsLoading(false)
OpenShow(op, cardsWithStatus) ==
  /\ boosterCards' = cardsWithStatus
  /\ isOpened' = TRUE
  /\ isLoading' = FALSE
  /\ openTask' = IdleOpen
  /\ ev' = EvOpen(op, openTask)
  /\ UNCHANGED <<toast, openUnchanged>>

\* getUserGameCollection answers the rows: the direct result is merged
openCollectionOk ==
  /\ mounted
  /\ openTask.pc = "collection"
  /\ OpenShow("openCollectionOk",
              MergePrimary(openTask.cards,
                           getUserGameCollection(game_collections, openTask.user)))

\* getUserGameCollection answers {error} or no data: the rpc
\* get_user_game_collection_safe is sent
openCollectionError ==
  /\ mounted
  /\ openTask.pc = "collection"
  /\ openTask' = [openTask EXCEPT !.pc = "rpc"]
  /\ ev' = Ev("openCollectionError", openTask.user, 0)
  /\ UNCHANGED <<boosterCards, isOpened, isLoading, toast, openUnchanged>>

\* getUserGameCollection rejects: the outer catch
openCollectionThrow ==
  /\ mounted
  /\ openTask.pc = "collection"
  /\ OpenCatch("openCollectionThrow")

\* The rpc answers the rows
openRpcOk ==
  /\ mounted
  /\ openTask.pc = "rpc"
  /\ OpenShow("openRpcOk",
              MergeFallback(openTask.cards,
                            get_user_game_collection_safe(game_collections,
                                                          openTask.user)))

\* The rpc answers {error}: every card owned: false, the pack is shown
openRpcError ==
  /\ mounted
  /\ openTask.pc = "rpc"
  /\ OpenShow("openRpcError", MergeDefault(openTask.cards))

\* The rpc rejects: the outer catch
openRpcThrow ==
  /\ mounted
  /\ openTask.pc = "rpc"
  /\ OpenCatch("openRpcThrow")

\* resetBooster, from the BoosterPack shown while isOpened
resetBooster ==
  /\ mounted
  /\ isOpened
  /\ boosterCards' = <<>>
  /\ isOpened' = FALSE
  /\ ev' = Ev("resetBooster", NoUser, 0)
  /\ UNCHANGED <<isLoading, toast, openTask, openUnchanged>>

\* ---------------------------------------------------- addToGameCollection
AddTask(pc, userId, cardId) == [pc |-> pc, user |-> userId, card |-> cardId]

addUnchanged == <<isLoggedIn, showAuthModal, username, isOpened, isLoading,
                  unhandled, checkUserPc, openTask, countTasks, mountVars,
                  cdVars, csVars>>

\* addToGameCollection(cardId), logged out, from the BoosterPack shown while isOpened
addToGameCollectionLoggedOut(cardId) ==
  /\ mounted
  /\ isOpened
  /\ ~isLoggedIn
  /\ showAuthModal' = TRUE
  /\ ev' = Ev("addToGameCollectionLoggedOut", NoUser, cardId)
  /\ UNCHANGED <<isLoggedIn, username, boosterCards, isOpened, isLoading,
                 gameCollectionCount, toast, unhandled, game_collections,
                 checkUserPc, openTask, addTasks, countTasks, added, mountVars,
                 cdVars, csVars>>

\* addToGameCollection(cardId), logged in: addCardToGameCollection is sent
addToGameCollectionStart(cardId) ==
  /\ mounted
  /\ isOpened
  /\ isLoggedIn
  /\ AddTask("insert", username, cardId) \notin addTasks
  /\ Cardinality(addTasks) < MaxAdds
  /\ addTasks' = addTasks \cup {AddTask("insert", username, cardId)}
  /\ ev' = Ev("addToGameCollectionStart", username, cardId)
  /\ UNCHANGED <<boosterCards, gameCollectionCount, toast, game_collections,
                 added, addUnchanged>>

\* The local patch after the insert or the rpc succeeded
AddPatch(op, t) ==
  /\ gameCollectionCount < MaxCount
  /\ game_collections' = InsertRow(game_collections, t.user, t.card)
  /\ boosterCards' = PatchOwned(boosterCards, t.card)
  /\ gameCollectionCount' = BumpCount(gameCollectionCount)
  /\ toast' = "Card added to your game collection!"
  /\ added' = added \cup {<<t.user, t.card>>}
  /\ addTasks' = addTasks \ {t}
  /\ ev' = Ev(op, t.user, t.card)
  /\ UNCHANGED addUnchanged

\* An optimistic add: the failure is reported and the patch stays applied
AddFail_Patched(op, t) ==
  /\ gameCollectionCount < MaxCount
  /\ toast' = "Failed to add card to collection"
  /\ boosterCards' = PatchOwned(boosterCards, t.card)
  /\ gameCollectionCount' = BumpCount(gameCollectionCount)
  /\ addTasks' = addTasks \ {t}
  /\ ev' = Ev(op, t.user, t.card)
  /\ UNCHANGED <<game_collections, added, addUnchanged>>

\* toast.error('Failed to add card to collection'), from the rpcError branch
\* or from the catch
AddFail(op, t) ==
  /\ toast' = "Failed to add card to collection"
  /\ addTasks' = addTasks \ {t}
  /\ ev' = Ev(op, t.user, t.card)
  /\ UNCHANGED <<boosterCards, gameCollectionCount, game_collections, added,
                 addUnchanged>>

\* addCardToGameCollection answers without error
addInsertOk(t) ==
  /\ mounted
  /\ t \in addTasks /\ t.pc = "insert"
  /\ AddPatch("addInsertOk", t)

\* addCardToGameCollection answers {error}: the rpc
\* add_card_to_game_collection_safe is sent
addInsertError(t) ==
  /\ mounted
  /\ t \in addTasks /\ t.pc = "insert"
  /\ AddTask("rpc", t.user, t.card) \notin addTasks
  /\ addTasks' = (addTasks \ {t}) \cup {AddTask("rpc", t.user, t.card)}
  /\ ev' = Ev("addInsertError", t.user, t.card)
  /\ UNCHANGED <<boosterCards, gameCollectionCount, toast, game_collections,
                 added, addUnchanged>>

\* addCardToGameCollection rejects: the catch
addInsertThrow(t) ==
  /\ mounted
  /\ t \in addTasks /\ t.pc = "insert"
  /\ AddFail("addInsertThrow", t)

\* The rpc answers without error
addRpcOk(t) ==
  /\ mounted
  /\ t \in addTasks /\ t.pc = "rpc"
  /\ AddPatch("addRpcOk", t)

\* The rpc answers {error}
addRpcError(t) ==
  /\ mounted
  /\ t \in addTasks /\ t.pc = "rpc"
  /\ AddFail("addRpcError", t)

\* The rpc rejects: the catch
addRpcThrow(t) ==
  /\ mounted
  /\ t \in addTasks /\ t.pc = "rpc"
  /\ AddFail("addRpcThrow", t)

\* ------------------------------------------------------------------ unmount
\* The page unmounts: the cleanup of the effect runs, and the state cells go
\* with the component (they are back at their useState values).  No handler of
\* the page can be called from then on.  No call in flight is cancelled.
unmount ==
  /\ mounted
  /\ mounted' = FALSE
  /\ subscription' = Unsubscribe(subscription)
  /\ isLoggedIn' = FALSE /\ showAuthModal' = FALSE /\ username' = NoUser
  /\ boosterCards' = <<>> /\ isOpened' = FALSE /\ isLoading' = FALSE
  /\ gameCollectionCount' = 0
  /\ ev' = Ev("unmount", NoUser, 0)
  /\ UNCHANGED <<toast, unhandled, game_collections, checkUserPc, openTask,
                 addTasks, countTasks, added, cdVars, csVars>>

\* A call that was in flight at the unmount still answers and its continuation
\* still runs: React drops what it hands to the setters of the cells, and the
\* rest of what it does (the next call, the row, the toast of the global
\* Toaster, the rejection nobody catches) happens as before.
Outcomes == {"ok", "error", "throw"}

orphanCells == <<isLoggedIn, showAuthModal, username, boosterCards, isOpened,
                 isLoading, gameCollectionCount, mountVars, cdVars, csVars>>

\* checkUser after the unmount: a session (ok) still calls
\* fetchGameCollectionCount, a rejection is still unhandled
orphanCheckUser(outcome, u) ==
  /\ ~mounted
  /\ checkUserPc = "getSession"
  /\ Cardinality(StartCountRead(countTasks, u)) <= MaxCountReads
  /\ checkUserPc' = "done"
  /\ countTasks' = IF outcome = "ok" THEN StartCountRead(countTasks, u)
                                     ELSE countTasks
  /\ unhandled' = IF outcome = "throw" THEN CheckUserRejected ELSE unhandled
  /\ ev' = Ev("orphanCheckUser", IF outcome = "ok" THEN u ELSE NoUser, 0)
  /\ UNCHANGED <<toast, game_collections, openTask, addTasks, added, orphanCells>>

\* fetchGameCollectionCount after the unmount: a rejection of the primary read
\* still sends the rpc, every other answer ends the call
orphanCount(t, outcome) ==
  /\ ~mounted
  /\ t \in countTasks
  /\ countTasks' = IF t.pc = "count" /\ outcome = "throw"
                     THEN (countTasks \ {t}) \cup {CountTask("rpc", t.user)}
                     ELSE countTasks \ {t}
  /\ ev' = Ev("orphanCount", t.user, 0)
  /\ UNCHANGED <<toast, unhandled, game_collections, checkUserPc, openTask,
                 addTasks, added, orphanCells>>

\* openBoosterPack after the unmount: the same calls follow one another, and
\* the catch still shows its toast
orphanOpen(outcome) ==
  /\ ~mounted
  /\ openTask.pc # "idle"
  /\ LET next == CASE outcome = "throw" -> "catch"
                   [] outcome = "ok" /\ openTask.pc = "cards" -> "collection"
                   [] outcome = "error" /\ openTask.pc = "cards" -> "catch"
                   [] outcome = "error" /\ openTask.pc = "collection" -> "rpc"
                   [] OTHER -> "idle"
     IN /\ openTask' = CASE next = "collection" ->
                              [openTask EXCEPT !.pc = next, !.cards = CardsQuery]
                         [] next = "rpc" -> [openTask EXCEPT !.pc = next]
                         [] OTHER -> IdleOpen
        /\ toast' = IF next = "catch" THEN "Failed to open booster pack" ELSE toast
  /\ ev' = Ev("orphanOpen", openTask.user, 0)
  /\ UNCHANGED <<unhandled, game_collections, checkUserPc, addTasks, countTasks,
                 added, orphanCells>>

\* addToGameCollection after the unmount: the row is still inserted, the
\* error value of the insert still sends the rpc, the toasts are still shown
orphanAdd(t, outcome) ==
  /\ ~mounted
  /\ t \in addTasks
  /\ LET next == CASE outcome = "ok" -> "done"
                   [] outcome = "error" /\ t.pc = "insert" -> "rpc"
                   [] OTHER -> "fail"
     IN /\ next = "rpc" => AddTask("rpc", t.user, t.card) \notin addTasks
        /\ addTasks' = IF next = "rpc"
                         THEN (addTasks \ {t}) \cup {AddTask("rpc", t.user, t.card)}
                         ELSE addTasks \ {t}
        /\ game_collections' = IF next = "done"
                                 THEN InsertRow(game_collections, t.user, t.card)
                                 ELSE game_collections
        /\ added' = IF next = "done" THEN added \cup {<<t.user, t.card>>} ELSE added
        /\ toast' = CASE next = "done" -> "Card added to your game collection!"
                      [] next = "fail" -> "Failed to add card to collection"
                      [] OTHER -> toast
  /\ ev' = Ev("orphanAdd", t.user, t.card)
  /\ UNCHANGED <<unhandled, checkUserPc, openTask, countTasks, orphanCells>>

\* ------------------------------------------------------------------ Next
CountTasks == [pc : {"count", "rpc"}, user : Users]
AddTasks == [pc : {"insert", "rpc"}, user : Users, card : Catalog]

Next ==
  \/ \E u \in Users : checkUserSession(u)
  \/ checkUserNoSession
  \/ checkUserReject
  \/ \E u \in Users : onAuthStateChangeSession(u)
  \/ onAuthStateChangeNoSession
  \/ \E t \in CountTasks : fetchCountOk(t)
  \/ \E t \in CountTasks : fetchCountError(t)
  \/ \E t \in CountTasks : fetchCountThrow(t)
  \/ \E t \in CountTasks : fetchCountRpcOk(t)
  \/ \E t \in CountTasks : fetchCountRpcFail(t)
  \/ \E u \in Users : handleLogin(u)
  \/ handleLogout
  \/ onLogin
  \/ onClose
  \/ openBoosterPackLoggedOut
  \/ openBoosterPackStart
  \/ openCardsOk
  \/ openCardsFail
  \/ openCollectionOk
  \/ openCollectionError
  \/ openCollectionThrow
  \/ openRpcOk
  \/ openRpcError
  \/ openRpcThrow
  \/ resetBooster
  \/ \E c \in Catalog : addToGameCollectionLoggedOut(c)
  \/ \E c \in Catalog : addToGameCollectionStart(c)
  \/ \E t \in AddTasks : addInsertOk(t)
  \/ \E t \in AddTasks : addInsertError(t)
  \/ \E t \in AddTasks : addInsertThrow(t)
  \/ \E t \in AddTasks : addRpcOk(t)
  \/ \E t \in AddTasks : addRpcError(t)
  \/ \E t \in AddTasks : addRpcThrow(t)
  \/ unmount
  \/ \E o \in Outcomes, u \in Users : orphanCheckUser(o, u)
  \/ \E t \in CountTasks, o \in Outcomes : orphanCount(t, o)
  \/ \E o \in Outcomes : orphanOpen(o)
  \/ \E t \in AddTasks, o \in Outcomes : orphanAdd(t, o)

Spec == Init /\ [][Next]_vars

\* ------------------------------------------------------------ CardDetails
\* The catalog of @/data/mockData: two sets, the cards of each as (set, card),
\* and the cards whose owned flag is set.
CdSetIds == {"base1", "base2"}
CdCards == {<<"base1", "base1-1">>, <<"base1", "base1-2">>, <<"base2", "base2-1">>}
CdOwned == {<<"base1", "base1-1">>}

\* Route parameters: an id of the catalog, an id that is not in it, or none
\* (useParams gives undefined)
CdSetParams == CdSetIds \cup {"base9", "undefined"}
CdCardParams == {c[2] : c \in CdCards} \cup {"base1-4", "undefined"}

\* getSetDetails(setId): whether it finds the set
getSetDetails(setId) == setId \in CdSetIds

\* getCardDetails(setId, cardId): whether it finds the card
getCardDetails(setId, cardId) == <<setId, cardId>> \in CdCards

\* What the component function returns for these parameters
CdReturn(setId, cardId) ==
  IF setId = "undefined" \/ cardId = "undefined" THEN "required"
  ELSE IF ~getCardDetails(setId, cardId) \/ ~getSetDetails(setId) THEN "notFound"
  ELSE "details"

\* The hooks one call of the component function runs: the useState of isOwned
\* comes after both early returns
CdHooksRun(setId, cardId) ==
  IF CdReturn(setId, cardId) = "details" THEN HooksFull ELSE HooksBeforeReturn

\* Whether React throws in a render that runs `run` hooks when the previous
\* render of the instance ran `prev` (0: this is the first render)
CdRenderThrows(prev, run) == prev # 0 /\ prev # run

cdBoosterUnchanged == <<boosterVars, mountVars, added, ev, csVars>>

\* A render of the mounted CardDetails instance with route parameters
\* (setId, cardId): the first one, or the one after the route changed
cdRender(setId, cardId) ==
  /\ cdOutput # "threw"
  /\ cdSetId' = setId /\ cdCardId' = cardId
  /\ IF CdRenderThrows(cdHooks, CdHooksRun(setId, cardId))
       THEN /\ cdOutput' = "threw"
            /\ UNCHANGED <<cdHooks, cdIsOwned>>
       ELSE /\ cdOutput' = CdReturn(setId, cardId)
            /\ cdHooks' = CdHooksRun(setId, cardId)
            /\ cdIsOwned' = IF cdHooks = 0 /\ CdReturn(setId, cardId) = "details"
                              THEN <<setId, cardId>> \in CdOwned
                              ELSE cdIsOwned
  /\ UNCHANGED <<cdIsLoggedIn, cdShowAuthModal, cdUsername, cdBoosterUnchanged>>

\* The handlers below are reached from the details view only; each sets state
\* and the instance renders again with the same route parameters, which runs
\* the same hooks.
cdHandleLogin(u) ==
  /\ cdOutput = "details" /\ cdShowAuthModal
  /\ cdIsLoggedIn' = TRUE /\ cdUsername' = u /\ cdShowAuthModal' = FALSE
  /\ UNCHANGED <<cdSetId, cdCardId, cdIsOwned, cdHooks, cdOutput,
                 cdBoosterUnchanged>>

cdHandleLogout ==
  /\ cdOutput = "details"
  /\ cdIsLoggedIn' = FALSE /\ cdUsername' = NoUser
  /\ UNCHANGED <<cdSetId, cdCardId, cdShowAuthModal, cdIsOwned, cdHooks,
                 cdOutput, cdBoosterUnchanged>>

cdHandleToggleOwned ==
  /\ cdOutput = "details"
  /\ cdIsOwned' = ~cdIsOwned
  /\ UNCHANGED <<cdSetId, cdCardId, cdIsLoggedIn, cdShowAuthModal, cdUsername,
                 cdHooks, cdOutput, cdBoosterUnchanged>>

cdOnLogin ==
  /\ cdOutput = "details"
  /\ cdShowAuthModal' = TRUE
  /\ UNCHANGED <<cdSetId, cdCardId, cdIsLoggedIn, cdUsername, cdIsOwned,
                 cdHooks, cdOutput, cdBoosterUnchanged>>

cdOnClose ==
  /\ cdOutput = "details" /\ cdShowAuthModal
  /\ cdShowAuthModal' = FALSE
  /\ UNCHANGED <<cdSetId, cdCardId, cdIsLoggedIn, cdUsername, cdIsOwned,
                 cdHooks, cdOutput, cdBoosterUnchanged>>

CdNext ==
  \/ \E s \in CdSetParams, c \in CdCardParams : cdRender(s, c)
  \/ \E u \in Users : cdHandleLogin(u)
  \/ cdHandleLogout
  \/ cdHandleToggleOwned
  \/ cdOnLogin
  \/ cdOnClose

SpecCardDetails == Init /\ [][CdNext]_vars

\* ---------------------------------------------------------------- CardSet
\* floor(n / d + 1/2), for n >= 0 and d > 0
RoundHalfUp(n, d) == (2 * n + d) \div (2 * d)

\* Math.round((collectedCards / total_cards) * 100).  The quotient and the
\* product are doubles, each within a rounding error of the exact value, and
\* Math.round rounds a half up: where the exact value is no half, the result is
\* the exact value rounded; where it is a half (k + 1/2), the double is that
\* half or a neighbour of it, and the result is k or k + 1.
MathRound(collected, total) ==
  LET n == Percent * collected
      r == RoundHalfUp(n, total)
  IN IF (2 * n + total) % (2 * total) = 0 THEN {r - 1, r} ELSE {r}

\* collectionProgress === 100 ? "bg-green-500"
\*   : collectionProgress > 50 ? "bg-pokemon-blue" : "bg-pokemon-red"
IndicatorClassName(progress) ==
  IF progress = FullProgress THEN "bg-green-500"
  ELSE IF progress > HalfProgress THEN "bg-pokemon-blue"
  ELSE "bg-pokemon-red"

\* The props of a set: total_cards > 0 and 0 <= collectedCards <= total_cards;
\* nothing is rendered yet
InitCardSet ==
  /\ BoosterInit /\ MountInit /\ CdInit
  /\ added = {} /\ ev = Ev("mount", NoUser, 0)
  /\ total_cards \in 1..MaxTotal
  /\ collectedCards \in 0..total_cards
  /\ collectionProgress = 0 /\ indicatorClassName = "none"

\* The render of CardSet
CardSetRender ==
  /\ indicatorClassName = "none"
  /\ \E progress \in MathRound(collectedCards, total_cards) :
       /\ collectionProgress' = progress
       /\ indicatorClassName' = IndicatorClassName(progress)
  /\ UNCHANGED <<total_cards, collectedCards, boosterVars, mountVars, added, ev,
                 cdVars>>

SpecCardSet == InitCardSet /\ [][CardSetRender]_vars

\* ================================================================ claims
AddOkOps == {"addInsertOk", "addRpcOk"}
AddFailOps == {"addInsertThrow", "addRpcError", "addRpcThrow"}
AddOps == AddOkOps \cup AddFailOps \cup
          {"addToGameCollectionStart", "addToGameCollectionLoggedOut",
           "addInsertError"}

\* The step that ends a successful addToGameCollection(C) of user U leaves the
\* row (U, C) in the table and every boosterCards entry with id C owned
C1_AddStep ==
  ev'.op \in AddOkOps =>
    /\ <<ev'.user, ev'.card>> \in game_collections'
    /\ <<ev'.user, ev'.card>> \in added'
    /\ \A i \in 1..Len(boosterCards') :
         boosterCards'[i].id = ev'.card => boosterCards'[i].owned

\* A run of openBoosterPack that ends by one of `ops` shows as owned every card
\* that a successful add of its user had added before the run started
C1_LaterRead(ops) ==
  ev'.op \in ops =>
    \A i \in 1..Len(boosterCards') :
      boosterCards'[i].id \in openTask.known => boosterCards'[i].owned

\* C1, as stated: once addToGameCollection(C) has succeeded for U, the entry
\* of C is owned, and every later merge of openBoosterPack for U, the one of
\* the failed fallback included, annotates C owned = true.
C1_OwnedInEveryLaterMerge ==
  [][C1_AddStep /\ C1_LaterRead({"openCollectionOk", "openRpcOk", "openRpcError"})]_vars

\* C1, amended: once addToGameCollection(C) has succeeded for U, the entry of
\* C is owned, and every later merge of openBoosterPack for U whose primary
\* read or fallback rpc succeeded annotates C owned = true.
C1_OwnedAfterAdd ==
  [][C1_AddStep /\ C1_LaterRead({"openCollectionOk", "openRpcOk"})]_vars

\* A pack merged from a read that succeeded, by a run that started after the
\* add of a card it shows as owned
C1_Witness ==
  /\ ev.op \in {"openCollectionOk", "openRpcOk"}
  /\ \E i \in 1..Len(boosterCards) :
       /\ boosterCards[i].id \in ev.known
       /\ <<ev.user, boosterCards[i].id>> \in added
       /\ boosterCards[i].owned

\* C2: adding is idempotent: a successful add of a card the user already owns
\* leaves the number of the user's rows as it was and does not increase
\* gameCollectionCount.
C2_ReAddKeepsCount ==
  [][(ev'.op \in AddOkOps /\ <<ev'.user, ev'.card>> \in game_collections) =>
       /\ getGameCollectionCount(game_collections', ev'.user)
            = getGameCollectionCount(game_collections, ev'.user)
       /\ gameCollectionCount' <= gameCollectionCount]_vars

\* C3: when the primary read succeeds, boosterCards is the fetched card list,
\* card for card in the same order, and a card is owned exactly when its id is
\* among the card ids of the user's rows.
C3_PrimaryMerge ==
  [][ev'.op = "openCollectionOk" =>
       /\ Len(boosterCards') = Len(openTask.cards)
       /\ \A i \in 1..Len(openTask.cards) :
            /\ boosterCards'[i].id = openTask.cards[i]
            /\ boosterCards'[i].owned
                 <=> (<<openTask.user, openTask.cards[i]>> \in game_collections)]_vars

\* A pack merged from the primary read with an owned and a not owned card
C3_Witness ==
  /\ ev.op = "openCollectionOk"
  /\ \E i, j \in 1..Len(boosterCards) :
       boosterCards[i].owned /\ ~boosterCards[j].owned

\* C4: when the primary read fails by an error or no data and the fallback rpc
\* succeeds, boosterCards and isOpened are what the primary path produces for
\* the same cards and the same rows.
C4_FallbackEqualsPrimary ==
  [][ev'.op = "openRpcOk" =>
       /\ boosterCards' =
            MergePrimary(openTask.cards,
                         getUserGameCollection(game_collections, openTask.user))
       /\ isOpened' = TRUE
       /\ isLoading' = FALSE]_vars

\* A pack merged from the fallback rpc that shows a card as owned
C4_Witness ==
  /\ ev.op = "openRpcOk"
  /\ isOpened
  /\ \E i \in 1..Len(boosterCards) : boosterCards[i].owned

\* What C5 says of the step that ends openBoosterPack when both reads failed
C5_FailOpen(ops) ==
  ev'.op \in ops =>
    /\ Len(boosterCards') = Len(openTask.cards)
    /\ \A i \in 1..Len(boosterCards') :
         boosterCards'[i].id = openTask.cards[i] /\ ~boosterCards'[i].owned
    /\ isOpened' = TRUE
    /\ toast' = toast

\* C5, as stated: when the primary read and the fallback rpc both fail, in
\* whatever way the rpc fails, every card is owned = false, the pack is shown
\* and no failure is raised.
C5_FailOpenOnAnyFailure ==
  [][C5_FailOpen({"openRpcError", "openRpcThrow"})]_vars

\* C5, amended: when the primary read returns an error or no data and the
\* fallback rpc returns an error, every card is owned = false, the pack is
\* shown and no failure is raised.
C5_FailOpenOnError ==
  [][C5_FailOpen({"openRpcError"})]_vars

\* The pack shown after both reads failed, with a card in it the user owns
C5_Witness ==
  /\ ev.op = "openRpcError"
  /\ isOpened
  /\ \E i \in 1..Len(boosterCards) :
       /\ <<ev.user, boosterCards[i].id>> \in game_collections
       /\ ~boosterCards[i].owned

\* C6: every step of an addToGameCollection call other than the one after the
\* insert or the rpc succeeded leaves boosterCards and gameCollectionCount as
\* they are; the step on which the call fails raises the failure notification;
\* the patch (owned = true, count + 1) comes with the row confirmed.
C6_PatchOnlyAfterSuccess ==
  [][/\ (ev'.op \in AddOps \ AddOkOps) =>
          /\ boosterCards' = boosterCards
          /\ gameCollectionCount' = gameCollectionCount
     /\ (ev'.op \in AddFailOps) =>
          toast' = "Failed to add card to collection"
     /\ (ev'.op \in AddOkOps) =>
          /\ <<ev'.user, ev'.card>> \in game_collections'
          /\ gameCollectionCount' = gameCollectionCount + 1]_vars

\* The insert and the rpc both failed, with a pack on display
C6_Witness ==
  /\ ev.op \in {"addRpcError", "addRpcThrow"}
  /\ toast = "Failed to add card to collection"
  /\ \E i \in 1..Len(boosterCards) :
       boosterCards[i].id = ev.card /\ ~boosterCards[i].owned

\* C7: openBoosterPack while logged out shows the authentication prompt, sends
\* no backend call and leaves boosterCards, isOpened and isLoading as they are.
C7_LoggedOutOpen ==
  [][(ev'.op \in {"openBoosterPackLoggedOut", "openBoosterPackStart"}
        /\ ~isLoggedIn) =>
       /\ showAuthModal' = TRUE
       /\ openTask' = openTask /\ openTask.pc = "idle"
       /\ addTasks' = addTasks /\ countTasks' = countTasks
       /\ game_collections' = game_collections
       /\ boosterCards' = boosterCards
       /\ isOpened' = isOpened
       /\ isLoading' = isLoading]_vars

\* The prompt shown by an openBoosterPack of a logged-out user
C7_Witness ==
  /\ ev.op = "openBoosterPackLoggedOut"
  /\ ~isLoggedIn /\ showAuthModal /\ openTask.pc = "idle" /\ ~isLoading

\* C8: a render of CardDetails for a set id or a card id that is not in the
\* catalog gives the not-found output and never throws, also when the same
\* instance rendered an existing card before.
C8_NotFoundNeverThrows ==
  /\ cdOutput # "threw"
  /\ (cdOutput # "none" /\ cdSetId # "undefined" /\ cdCardId # "undefined"
        /\ ~getCardDetails(cdSetId, cdCardId))
       => cdOutput = "notFound"

\* C9: the session observer, on an event with a session, sets isLoggedIn,
\* sets username to the session's user id and starts a count read for it; on
\* an event without a session it clears isLoggedIn, username and the count.
C9_SessionObserver ==
  [][/\ ev'.op = "onAuthStateChangeSession" =>
          /\ isLoggedIn' = TRUE
          /\ username' = ev'.user
          /\ CountTask("count", ev'.user) \in countTasks'
     /\ ev'.op = "onAuthStateChangeNoSession" =>
          /\ isLoggedIn' = FALSE
          /\ username' = NoUser
          /\ gameCollectionCount' = 0]_vars

\* A session event that signed the user in and left a count read in flight
C9_Witness ==
  /\ ev.op = "onAuthStateChangeSession"
  /\ isLoggedIn /\ username = ev.user
  /\ CountTask("count", ev.user) \in countTasks

\* C10: no failure of a backend call of the booster page, returned or thrown,
\* is left unhandled.
C10_NoUnhandledFailure == unhandled = FALSE

\* C11: the session-change subscription exists exactly while the page is
\* mounted (created by the mount, released by the unmount), and after the
\* unmount the page stays unmounted, no session-change event runs the observer
\* callback, and isLoggedIn, username and gameCollectionCount do not change.
AuthEventOps == {"onAuthStateChangeSession", "onAuthStateChangeNoSession"}

C11_SubscriptionReleased ==
  [][/\ (subscription' = Subscribed) <=> mounted'
     /\ ~mounted =>
          /\ ~mounted'
          /\ ev'.op \notin AuthEventOps
          /\ isLoggedIn' = isLoggedIn
          /\ username' = username
          /\ gameCollectionCount' = gameCollectionCount]_vars

\* After the unmount, with the subscription released, a call that was in
\* flight has answered
C11_Witness ==
  /\ ~mounted /\ subscription = Unsubscribe(Subscribed)
  /\ ev.op \in {"orphanCheckUser", "orphanCount", "orphanOpen", "orphanAdd"}

\* C12: each of the count read, the game-collection read and the add insert,
\* when its primary attempt fails (an error value or a throw), leaves its
\* fallback rpc in flight; when its primary attempt succeeds it leaves no rpc
\* in flight; and when the rpc has answered, no second rpc is in flight.
C12_OneFallbackOnAnyFailure ==
  [][/\ ev'.op \in {"fetchCountError", "fetchCountThrow"} =>
          CountTask("rpc", ev'.user) \in countTasks'
     /\ ev'.op \in {"openCollectionError", "openCollectionThrow"} =>
          openTask'.pc = "rpc"
     /\ ev'.op \in {"addInsertError", "addInsertThrow"} =>
          AddTask("rpc", ev'.user, ev'.card) \in addTasks'
     /\ ev'.op \in {"fetchCountOk", "fetchCountRpcOk", "fetchCountRpcFail"} =>
          CountTask("rpc", ev'.user) \notin countTasks'
     /\ ev'.op \in {"openCollectionOk", "openRpcOk", "openRpcError",
                    "openRpcThrow"} =>
          openTask'.pc # "rpc"
     /\ ev'.op \in {"addInsertOk", "addRpcOk", "addRpcError", "addRpcThrow"} =>
          AddTask("rpc", ev'.user, ev'.card) \notin addTasks']_vars

\* C13: in every state of the booster page in which isLoggedIn is false,
\* gameCollectionCount is 0.
C13_LoggedOutCountZero == ~isLoggedIn => gameCollectionCount = 0

\* C14: for total_cards > 0 and 0 <= collectedCards <= total_cards, the
\* progress value of a rendered CardSet lies in 0..100, the indicator is green
\* exactly when collectedCards = total_cards, and otherwise it is blue when the
\* progress value is above 50 and red when it is 50 or below.
C14_ProgressStyle ==
  indicatorClassName # "none" =>
    /\ collectionProgress \in 0..100
    /\ (indicatorClassName = "bg-green-500") <=> (collectedCards = total_cards)
    /\ collectedCards # total_cards =>
         indicatorClassName = IF collectionProgress > 50 THEN "bg-pokemon-blue"
                                                         ELSE "bg-pokemon-red"

====
